---- MODULE Spec2Model ----
(***************************************************************************)
(* Model of Taquin.py: the sliding puzzle (class Puzzle), the search node  *)
(* (class Noeud) and the best-first search (Solution.resoudre), together   *)
(* with the random walk of Puzzle.shuffle that produces the start board.   *)
(*                                                                         *)
(* A table is a sequence of rows, each a sequence of integers.  The code   *)
(* indexes cells from 0; Cell(t, i, j) is table[i][j] of the code.         *)
(***************************************************************************)
EXTENDS Integers, Sequences, FiniteSets, TLC

VARIABLES table,     \* Puzzle.table of the puzzle being shuffled, then Solution.initial.table
          melange,   \* number of random moves shuffle has made so far
          pc,        \* "shuffle", "running", "solved", "exhausted" or "IndexError"
          noeuds,    \* the Noeud objects kept alive by resoudre, by identity (index)
          queue,     \* the deque of resoudre: a sequence of indices into noeuds
          rs,        \* the set rs of resoudre: the etat strings already generated
          resultat,  \* the value returned by resoudre: noeud.chemin, or <<>> for None
          steps      \* the counter of the reporting loop: <<>> before it exists, then <<n>>

vars == <<table, melange, pc, noeuds, queue, rs, resultat, steps>>

----------------------------------------------------------------------------
(* Bounds of the model *)

\* Puzzle.shuffle makes 50 random moves; the model lets it stop after any
\* number of moves up to MaxShuffle.
MaxShuffle == 10

\* Widths of the boards of the whole-program specification.
Dims == {2, 3}

\* Widths of the boards of the board-level specification.
BoardDims == {2, 3, 4}

\* The value standing for a raised IndexError in the result of manhattan.
IndexError == -1

----------------------------------------------------------------------------
(* class Puzzle *)

\* Puzzle.__init__: largeur = len(table[0])
Largeur(t) == Len(t[1])

Cell(t, i, j) == t[i + 1][j + 1]

\* The table [[1, ..., n], ..., [..., n*n - 1, 0]]
But(n) == [i \in 1..n |-> [j \in 1..n |->
             IF i = n /\ j = n THEN 0 ELSE (i - 1) * n + j]]

\* str(v) of a non-negative integer, as its sequence of decimal digits
RECURSIVE Chiffres(_)
Chiffres(v) == IF v < 10 THEN <<v>> ELSE Chiffres(v \div 10) \o <<v % 10>>

\* ''.join(map(str, s)) of a sequence s of integers
RECURSIVE Join(_)
Join(s) == IF s = <<>> THEN <<>> ELSE Chiffres(Head(s)) \o Join(Tail(s))

\* Puzzle.__iter__: the cells in row-major order
RECURSIVE Iter(_)
Iter(t) == IF t = <<>> THEN <<>> ELSE Head(t) \o Iter(Tail(t))

\* Puzzle.__str__
Str(t) == Join(Iter(t))

\* Puzzle.est_resolu
est_resolu(t) ==
    LET n == Largeur(t) * Largeur(t)
    IN  Str(t) = Join([k \in 1..(n - 1) |-> k]) \o <<0>>

\* _move assigning the two cells one after the other instead of exchanging them
_move_sequentiel(t, p1, p2) ==
    [i \in 1..Len(t) |-> [j \in 1..Len(t[i]) |->
        IF <<i - 1, j - 1>> = p1 THEN Cell(t, p2[1], p2[2])
        ELSE t[i][j]]]

\* Puzzle._move (with Puzzle.copy): a new table with p1 and p2 exchanged
_move(t, p1, p2) ==
    [i \in 1..Len(t) |-> [j \in 1..Len(t[i]) |->
        IF <<i - 1, j - 1>> = p1 THEN Cell(t, p2[1], p2[2])
        ELSE IF <<i - 1, j - 1>> = p2 THEN Cell(t, p1[1], p1[2])
        ELSE t[i][j]]]

\* direcs with the offset of 'D' repeated for 'G'
direcs_copie(i, j) == << [action |-> "D", rc |-> <<i, j - 1>>],
                         [action |-> "G", rc |-> <<i, j - 1>>],
                         [action |-> "B", rc |-> <<i - 1, j>>],
                         [action |-> "H", rc |-> <<i + 1, j>>] >>

\* The dict direcs of Puzzle.actions, in insertion order
direcs(i, j) == << [action |-> "D", rc |-> <<i, j - 1>>],
                   [action |-> "G", rc |-> <<i, j + 1>>],
                   [action |-> "B", rc |-> <<i - 1, j>>],
                   [action |-> "H", rc |-> <<i + 1, j>>] >>

\* The inner loop of Puzzle.actions for the cell (i, j)
CellActions(t, i, j) ==
    LET n  == Largeur(t)
        ok(d) == /\ 0 <= d.rc[1] /\ d.rc[1] < n
                 /\ 0 <= d.rc[2] /\ d.rc[2] < n
                 /\ Cell(t, d.rc[1], d.rc[2]) = 0
        kept == SelectSeq(direcs(i, j), ok)
    IN  [k \in 1..Len(kept) |->
            [p1 |-> <<i, j>>, p2 |-> kept[k].rc, action |-> kept[k].action]]

\* The outer loop of Puzzle.actions from the k-th cell of itertools.product on
RECURSIVE ActionsFrom(_, _)
ActionsFrom(t, k) ==
    LET n == Largeur(t)
    IN  IF k >= n * n THEN <<>>
        ELSE CellActions(t, k \div n, k % n) \o ActionsFrom(t, k + 1)

\* Puzzle.actions: the list of (move, action), a move being the pair it exchanges
actions(t) == ActionsFrom(t, 0)

\* Calling the lambda of a move
Jouer(t, m) == _move(t, m.p1, m.p2)

Abs(x) == IF x < 0 THEN -x ELSE x

\* Puzzle.manhattan from the k-th iteration of its two loops over range(3) on,
\* distance being the sum so far; table[i][j] out of range raises IndexError
RECURSIVE ManhattanFrom(_, _, _)
ManhattanFrom(t, k, distance) ==
    IF k >= 9 THEN distance
    ELSE LET i == k \div 3
             j == k % 3
         IN  IF i >= Len(t) \/ j >= Len(t[i + 1]) THEN IndexError
             ELSE LET v == Cell(t, i, j)
                      x == (v - 1) \div 3
                      y == (v - 1) % 3
                  IN  ManhattanFrom(t, k + 1,
                         IF v # 0 THEN distance + Abs(x - i) + Abs(y - j)
                                  ELSE distance)

\* Puzzle.manhattan
manhattan(t) == ManhattanFrom(t, 0, 0)

----------------------------------------------------------------------------
(* class Noeud *)

\* Noeud.__init__ giving a child the g of its parent
Noeud_sans_increment(ns, puzzle, parent, action) ==
    [puzzle |-> puzzle, parent |-> parent, action |-> action,
     g |-> IF parent # 0 THEN ns[parent].g ELSE 0]

\* Noeud.__init__ not storing the action
Noeud_sans_action(ns, puzzle, parent, action) ==
    [puzzle |-> puzzle, parent |-> parent, action |-> "None",
     g |-> IF parent # 0 THEN ns[parent].g + 1 ELSE 0]

\* Noeud.__init__; parent is an index into ns, 0 for None
Noeud(ns, puzzle, parent, action) ==
    [puzzle |-> puzzle, parent |-> parent, action |-> action,
     g |-> IF parent # 0 THEN ns[parent].g + 1 ELSE 0]

\* Noeud.etat
etat(nd) == Str(nd.puzzle)

\* Noeud.h
h(nd) == manhattan(nd.puzzle)

\* Noeud.f returning h alone
f_sans_g(nd) == h(nd)

\* Noeud.f
f(nd) == h(nd) + nd.g

\* Noeud.chemin: the nodes from the root to the node id
RECURSIVE chemin(_, _)
chemin(ns, id) ==
    IF id = 0 THEN <<>> ELSE chemin(ns, ns[id].parent) \o <<id>>

----------------------------------------------------------------------------
(* Solution.resoudre *)

\* The pairs of ps whose key is v, then those whose key is v + 1, ... up to max,
\* each group in the order it has in ps
RECURSIVE ParCle(_, _, _)
ParCle(ps, v, max) ==
    IF v > max THEN <<>>
    ELSE SelectSeq(ps, LAMBDA x : x[1] = v) \o ParCle(ps, v + 1, max)

\* sorted with key=lambda noeud: noeud.h
Sorted_par_h(ns, q) ==
    LET ps   == [k \in 1..Len(q) |-> <<h(ns[q[k]]), q[k]>>]
        cles == {ps[k][1] : k \in 1..Len(q)}
        min  == CHOOSE v \in cles : \A w \in cles : v <= w
        max  == CHOOSE v \in cles : \A w \in cles : w <= v
        tri  == ParCle(ps, min, max)
    IN  IF q = <<>> THEN <<>> ELSE [k \in 1..Len(q) |-> tri[k][2]]

\* sorted(list(queue), key=lambda noeud: noeud.f): the key of every element is
\* computed once, and the sort is stable: ascending keys, the elements of equal
\* key in the order they have in q
Sorted(ns, q) ==
    LET ps   == [k \in 1..Len(q) |-> <<f(ns[q[k]]), q[k]>>]
        cles == {ps[k][1] : k \in 1..Len(q)}
        min  == CHOOSE v \in cles : \A w \in cles : v <= w
        max  == CHOOSE v \in cles : \A w \in cles : w <= v
        tri  == ParCle(ps, min, max)
    IN  IF q = <<>> THEN <<>> ELSE [k \in 1..Len(q) |-> tri[k][2]]

\* The for loop of resoudre with queue.append in place of queue.appendleft
RECURSIVE Enfants_append(_, _, _, _)
Enfants_append(st, id, acts, k) ==
    IF k > Len(acts) THEN st
    ELSE LET enfant == [puzzle |-> Jouer(st.noeuds[id].puzzle, acts[k]),
                        parent |-> id, action |-> acts[k].action,
                        g |-> st.noeuds[id].g + 1]
         IN  IF Str(enfant.puzzle) \notin st.rs
             THEN Enfants_append([noeuds |-> Append(st.noeuds, enfant),
                                  queue  |-> st.queue \o <<Len(st.noeuds) + 1>>,
                                  rs     |-> st.rs \cup {Str(enfant.puzzle)}],
                                 id, acts, k + 1)
             ELSE Enfants_append(st, id, acts, k + 1)

\* The for loop of resoudre without rs.add(enfant.etat)
RECURSIVE Enfants_sans_add(_, _, _, _)
Enfants_sans_add(st, id, acts, k) ==
    IF k > Len(acts) THEN st
    ELSE LET enfant == [puzzle |-> Jouer(st.noeuds[id].puzzle, acts[k]),
                        parent |-> id, action |-> acts[k].action,
                        g |-> st.noeuds[id].g + 1]
         IN  IF Str(enfant.puzzle) \notin st.rs
             THEN Enfants_sans_add([noeuds |-> Append(st.noeuds, enfant),
                                    queue  |-> <<Len(st.noeuds) + 1>> \o st.queue,
                                    rs     |-> st.rs],
                                   id, acts, k + 1)
             ELSE Enfants_sans_add(st, id, acts, k + 1)

\* The for loop of resoudre over noeud.actions from its k-th move on;
\* st holds noeuds, queue and rs
RECURSIVE Enfants(_, _, _, _)
Enfants(st, id, acts, k) ==
    IF k > Len(acts) THEN st
    ELSE LET enfant == Noeud(st.noeuds, Jouer(st.noeuds[id].puzzle, acts[k]),
                             id, acts[k].action)
         IN  IF etat(enfant) \notin st.rs
             THEN Enfants([noeuds |-> Append(st.noeuds, enfant),
                           queue  |-> <<Len(st.noeuds) + 1>> \o st.queue,
                           rs     |-> st.rs \cup {etat(enfant)}],
                          id, acts, k + 1)
             ELSE Enfants(st, id, acts, k + 1)

\* The while condition of resoudre and one execution of its body, from the
\* nodes ns, the deque q and the set vus: where control goes next, the three
\* afterwards, and the value returned when the function returns
Iteration(ns, q, vus) ==
    IF q = <<>>
    THEN [pc |-> "exhausted", noeuds |-> ns, queue |-> q, rs |-> vus, resultat |-> <<>>]
    ELSE IF \E k \in 1..Len(q) : h(ns[q[k]]) = IndexError
    THEN [pc |-> "IndexError", noeuds |-> ns, queue |-> q, rs |-> vus, resultat |-> <<>>]
    ELSE LET tri   == Sorted(ns, q)
             noeud == Head(tri)
         IN  IF est_resolu(ns[noeud].puzzle)
             THEN [pc |-> "solved", noeuds |-> ns, queue |-> Tail(tri), rs |-> vus,
                   resultat |-> chemin(ns, noeud)]
             ELSE LET st == Enfants([noeuds |-> ns, queue |-> Tail(tri), rs |-> vus],
                                    noeud, actions(ns[noeud].puzzle), 1)
                  IN  [pc |-> "running", noeuds |-> st.noeuds, queue |-> st.queue,
                       rs |-> st.rs, resultat |-> <<>>]

----------------------------------------------------------------------------
(* The program *)

Init ==
    /\ \E n \in Dims : table = But(n)
    /\ melange = 0
    /\ pc = "shuffle"
    /\ noeuds = <<>>
    /\ queue = <<>>
    /\ rs = {}
    /\ resultat = <<>>
    /\ steps = <<>>

\* One iteration of the loop of Puzzle.shuffle
Shuffle ==
    /\ pc = "shuffle"
    /\ melange < MaxShuffle
    /\ \E k \in 1..Len(actions(table)) : table' = Jouer(table, actions(table)[k])
    /\ melange' = melange + 1
    /\ UNCHANGED <<pc, noeuds, queue, rs, resultat, steps>>

\* shuffle returns, its loop counter is gone; Solution(puzzle).resoudre() up to
\* its while loop
Resoudre ==
    /\ pc = "shuffle"
    /\ LET racine == Noeud(<<>>, table, 0, "None")
       IN  /\ noeuds' = <<racine>>
           /\ queue' = <<1>>
           /\ rs' = {etat(racine)}
    /\ melange' = 0
    /\ pc' = "running"
    /\ UNCHANGED <<table, resultat, steps>>

\* One evaluation of the while condition of resoudre and of its body
Boucle ==
    /\ pc = "running"
    /\ \E r \in {Iteration(noeuds, queue, rs)} :
          /\ pc' = r.pc
          /\ noeuds' = r.noeuds
          /\ queue' = r.queue
          /\ rs' = r.rs
          /\ resultat' = r.resultat
    /\ UNCHANGED <<table, melange, steps>>

\* The for loop of the report from its k-th node on, n being steps so far
RECURSIVE Compter(_, _, _)
Compter(p, k, n) == IF k > Len(p) THEN n ELSE Compter(p, k + 1, n + 1)

\* The report after resoudre has returned p: steps = 0, one pass of the for
\* loop per node of p, and the print of steps as "Nombre de deplacements";
\* iterating over None raises TypeError
Rapport ==
    /\ pc \in {"solved", "exhausted"}
    /\ steps = <<>>
    /\ IF pc = "exhausted"
       THEN /\ pc' = "TypeError"
            /\ steps' = <<0>>
       ELSE /\ pc' = pc
            /\ steps' = <<Compter(resultat, 1, 0)>>
    /\ UNCHANGED <<table, melange, noeuds, queue, rs, resultat>>

Next == Shuffle \/ Resoudre \/ Boucle \/ Rapport

Spec == Init /\ [][Next]_vars

----------------------------------------------------------------------------
(* The boards alone: Puzzle objects built from a table and walked by shuffle *)

\* The table of But(n) with its first two cells exchanged: a valid board from
\* which But(n) cannot be reached
Inverse(n) == [But(n) EXCEPT ![1] = [@ EXCEPT ![1] = But(n)[1][2], ![2] = But(n)[1][1]]]

\* A valid board of width 4 whose cells, written one after the other in decimal,
\* give the same digits as those of But(4): 12 3 4 5 ... against 1 2 3 4 5 ...
Homonyme == << <<12, 3, 4, 5>>, <<6, 7, 8, 9>>, <<10, 11, 1, 2>>, <<13, 14, 15, 0>> >>

Depart == {But(n) : n \in BoardDims} \cup {Inverse(n) : n \in BoardDims} \cup {Homonyme}

BoardInit ==
    /\ table \in Depart
    /\ melange = 0
    /\ pc = "shuffle"
    /\ noeuds = <<>>
    /\ queue = <<>>
    /\ rs = {}
    /\ resultat = <<>>
    /\ steps = <<>>

BoardNext == Shuffle

BoardSpec == BoardInit /\ [][BoardNext]_vars

----------------------------------------------------------------------------
(* The constructor alone: Puzzle(table) called on any list of lists *)

\* The row lengths, the row counts and the cell values of the lists given
Cotes == {1, 2}
Valeurs == 0..4

Rangees == UNION {[1..l -> Valeurs] : l \in Cotes}
Grilles == UNION {[1..m -> Rangees] : m \in Cotes}

\* The caller holds a list of lists and has not called Puzzle yet
ConstructInit ==
    /\ table \in Grilles
    /\ melange = 0
    /\ pc = "brut"
    /\ noeuds = <<>>
    /\ queue = <<>>
    /\ rs = {}
    /\ resultat = <<>>
    /\ steps = <<>>

\* Puzzle.__init__: the list is stored as it is and the object exists; nothing
\* is tested and nothing is raised
Construire ==
    /\ pc = "brut"
    /\ table' = table
    /\ pc' = "shuffle"
    /\ UNCHANGED <<melange, noeuds, queue, rs, resultat, steps>>

ConstructNext == Construire

ConstructSpec == ConstructInit /\ [][ConstructNext]_vars

----------------------------------------------------------------------------
(* Vocabulary of the properties *)

\* t is a square grid of at least one row holding each of 0 .. N*N - 1 once
Valide(t) ==
    LET n == Len(t)
    IN  /\ n >= 1
        /\ \A i \in 1..n : Len(t[i]) = n
        /\ \A v \in 0..(n * n - 1) :
              Cardinality({c \in (1..n) \X (1..n) : t[c[1]][c[2]] = v}) = 1

\* The position (0-based) of the blank of a valid board
Trou(t) == CHOOSE c \in (0..(Len(t) - 1)) \X (0..(Len(t) - 1)) : Cell(t, c[1], c[2]) = 0

\* The boards one legal move away from t
Voisins(t) == {Jouer(t, actions(t)[k]) : k \in 1..Len(actions(t))}

\* The least number of legal moves from a board of front to But(n), front being
\* the boards at d moves from the start and vus those at d moves or fewer;
\* -1 when But(n) cannot be reached
RECURSIVE DistanceFrom(_, _, _)
DistanceFrom(front, vus, d) ==
    IF front = {} THEN -1
    ELSE IF \E t \in front : t = But(Largeur(t)) THEN d
    ELSE LET suite == (UNION {Voisins(t) : t \in front}) \ vus
         IN  DistanceFrom(suite, vus \cup suite, d + 1)

Distance(t) == DistanceFrom({t}, {t}, 0)

\* The board reached from t by its legal move of tag a
Appliquer(t, a) ==
    LET acts == actions(t)
    IN  Jouer(t, acts[CHOOSE k \in 1..Len(acts) : acts[k].action = a])

\* The boards met when the tags of the nodes p[k], p[k+1], ... are played from t
RECURSIVE Rejouer(_, _, _, _)
Rejouer(ns, p, k, t) ==
    IF k > Len(p) THEN <<>>
    ELSE LET a    == ns[p[k]].action
             acts == actions(t)
         IN  IF \E m \in 1..Len(acts) : acts[m].action = a
             THEN LET suivant == Appliquer(t, a)
                  IN  <<suivant>> \o Rejouer(ns, p, k + 1, suivant)
             ELSE <<>>

Fini == pc \in {"solved", "exhausted", "IndexError"}

----------------------------------------------------------------------------
(* Properties *)

\* C1: for every board obtained from the goal board by any number of legal
\* moves, resoudre started on it ends solved with a path: it ends neither
\* exhausted nor with an error.
C1_MelangeResolu ==
    /\ pc \in {"shuffle", "running", "solved"}
    /\ pc = "solved" => resultat # <<>>

\* C1 on the boards of width 3, the width manhattan is written for.
C1_MelangeResolu_Largeur3 ==
    Largeur(table) = 3 => C1_MelangeResolu

\* C2: in a path returned by resoudre the first node has g = 0 and no parent,
\* every later node has its predecessor as parent and the predecessor's g + 1
\* as g, and the board of the last node is the goal.
C2_CheminBienForme ==
    pc = "solved" =>
        LET p == resultat
        IN  /\ Len(p) >= 1
            /\ noeuds[p[1]].g = 0
            /\ noeuds[p[1]].parent = 0
            /\ \A k \in 2..Len(p) : /\ noeuds[p[k]].parent = p[k - 1]
                                    /\ noeuds[p[k]].g = noeuds[p[k - 1]].g + 1
            /\ noeuds[p[Len(p)]].puzzle = But(Largeur(table))

C2_Witness ==
    /\ pc = "solved"
    /\ Len(resultat) >= 4
    /\ noeuds[resultat[Len(resultat)]].g = Len(resultat) - 1

\* C3: playing, from the initial board, the tags stored in the nodes of a
\* returned path from the second node on, each as a legal move of the current
\* board, gives exactly the boards stored in the path and ends at the goal.
C3_RejouerChemin ==
    pc = "solved" =>
        LET p == resultat
            joues == Rejouer(noeuds, p, 2, table)
        IN  /\ noeuds[p[1]].puzzle = table
            /\ Len(joues) = Len(p) - 1
            /\ \A k \in 2..Len(p) : joues[k - 1] = noeuds[p[k]].puzzle
            /\ (<<table>> \o joues)[Len(p)] = But(Largeur(table))

C3_Witness ==
    /\ pc = "solved"
    /\ Len(resultat) >= 4
    /\ Len(Rejouer(noeuds, resultat, 2, table)) = Len(resultat) - 1

\* C4: for every valid initial board the loop of resoudre terminates: a run
\* that has stopped has ended solved or exhausted.
C4_Termine == Fini => pc \in {"solved", "exhausted"}

\* C4, the reason given: an iteration that does not end the loop removes one
\* node from the queue and adds one key to rs for every node it inserts, so
\* that 2 * |rs| - len(queue) grows strictly while rs holds keys of boards only.
C4_Mesure ==
    [][(pc = "running" /\ pc' = "running") =>
          /\ rs \subseteq rs'
          /\ 2 * Cardinality(rs') - Len(queue') > 2 * Cardinality(rs) - Len(queue)]_vars

\* The board of width 3, ten moves from the goal, on which resoudre returns
\* twelve moves.
NonOptimal == << <<1, 3, 5>>, <<4, 0, 8>>, <<7, 6, 2>> >>

C6_SansErreur ==
    /\ pc \in {"shuffle", "running", "solved", "exhausted"}
    /\ pc = "exhausted" => (resultat = <<>> /\ queue = <<>>)

\* C7: on a board that is already the goal, resoudre returns a path of exactly
\* one node, the root without a tag, and expands no node.
C7_DejaResolu ==
    (Fini /\ table = But(Largeur(table))) =>
        /\ pc = "solved"
        /\ Len(resultat) = 1
        /\ noeuds[resultat[1]].action = "None"
        /\ noeuds[resultat[1]].parent = 0
        /\ Len(noeuds) = 1

\* C7 on the boards of width 3.
C7_DejaResolu_Largeur3 ==
    Largeur(table) = 3 => C7_DejaResolu

\* C8: actions returns between 2 and 4 moves, of pairwise distinct tags, and
\* the board of each move is the original with the blank exchanged with one
\* orthogonally adjacent cell of the grid, every other cell unchanged.
C8_Actions ==
    LET acts == actions(table)
        n    == Largeur(table)
        trou == Trou(table)
    IN  /\ Len(acts) >= 2
        /\ Len(acts) <= 4
        /\ \A k, l \in 1..Len(acts) : k # l => acts[k].action # acts[l].action
        /\ \A k \in 1..Len(acts) :
              \E c \in (0..(n - 1)) \X (0..(n - 1)) :
                 /\ Abs(c[1] - trou[1]) + Abs(c[2] - trou[2]) = 1
                 /\ Jouer(table, acts[k]) =
                       [i \in 1..n |-> [j \in 1..n |->
                           IF <<i - 1, j - 1>> = trou THEN Cell(table, c[1], c[2])
                           ELSE IF <<i - 1, j - 1>> = c THEN 0
                           ELSE table[i][j]]]

C8_Witness ==
    /\ melange > 0
    /\ Largeur(table) = 3
    /\ Trou(table) = <<1, 1>>
    /\ Len(actions(table)) = 4

\* C9: every move is its own inverse: exchanging the same two cells again in
\* the board of a move gives the original board, and that exchange is one of
\* the legal moves of the board of the move.
C9_MoveInverse ==
    LET acts == actions(table)
    IN  \A k \in 1..Len(acts) :
           LET m     == acts[k]
               b2    == Jouer(table, m)
               acts2 == actions(b2)
           IN  /\ b2 # table
               /\ _move(b2, m.p1, m.p2) = table
               /\ \E l \in 1..Len(acts2) :
                     /\ {acts2[l].p1, acts2[l].p2} = {m.p1, m.p2}
                     /\ Jouer(b2, acts2[l]) = table

C9_Witness ==
    /\ melange = 2
    /\ table \in Depart
    /\ Largeur(table) = 4

\* C10: manhattan is 0 exactly when est_resolu is true.
C10_ManhattanNulSsiResolu ==
    (manhattan(table) = 0) <=> est_resolu(table)

\* C10 on the boards of width 3.
C10_ManhattanNulSsiResolu_Largeur3 ==
    Largeur(table) = 3 => C10_ManhattanNulSsiResolu

\* The sum, over the non-blank cells of t, of the Manhattan distance between the
\* cell and the place divmod(v - 1, N) of its value v, N being the width of t
SommeManhattan(t) ==
    LET n == Len(t)
        d[k \in 0..(n * n)] ==
            IF k = 0 THEN 0
            ELSE LET i == (k - 1) \div n
                     j == (k - 1) % n
                     v == Cell(t, i, j)
                 IN  d[k - 1] + (IF v = 0 THEN 0
                                 ELSE Abs(((v - 1) \div n) - i) + Abs(((v - 1) % n) - j))
    IN  d[n * n]

\* The board [[1, 2, 3], [4, 0, 6], [7, 5, 8]]
Exemple == << <<1, 2, 3>>, <<4, 0, 6>>, <<7, 5, 8>> >>

\* C11: on every valid board of width N, manhattan is the sum over the non-blank
\* cells of the Manhattan distance to the place divmod(v - 1, N) of the value;
\* on [[1, 2, 3], [4, 0, 6], [7, 5, 8]] it is 2.
C11_ManhattanEstLaSomme ==
    /\ manhattan(table) = SommeManhattan(table)
    /\ table = Exemple => manhattan(table) = 2

\* C11 on the boards of width 3.
C11_ManhattanEstLaSomme_Largeur3 ==
    Largeur(table) = 3 => C11_ManhattanEstLaSomme

\* C12: est_resolu is true exactly when the table is the goal: 1 .. N*N - 1 in
\* row-major order, then the blank in the last cell.
C12_ResoluSsiBut ==
    est_resolu(table) <=> table = But(Largeur(table))

\* C12 on the boards of width at most 3, whose values have one digit each.
C12_ResoluSsiBut_UnChiffre ==
    Largeur(table) <= 3 => C12_ResoluSsiBut

\* C13: building a board from a grid that is not square, or holds a value
\* outside 0 .. N*N - 1, or a repeated value, or no blank or two, fails and
\* yields no board: every Puzzle that exists holds a valid grid.
C13_GrilleRefusee ==
    pc = "shuffle" => Valide(table)

\* C14: the number of moves reported for a solution is the number of nodes of
\* the returned path minus 1; for a start board that is the goal it is 0.
C14_NombreDeDeplacements ==
    steps # <<>> =>
        /\ steps[1] = Len(resultat) - 1
        /\ table = But(Largeur(table)) => steps[1] = 0

\* The nodes inserted into the queue so far: the root and every child kept
Inseres == 1..Len(noeuds)

\* The nodes inserted and taken out of the queue since
Extraits == Inseres \ {queue[k] : k \in 1..Len(queue)}

\* C15: during resoudre a key is in rs exactly when a node of that board has
\* been inserted into the queue, the root included; so no two inserted nodes
\* hold the same board, no node is twice in the queue, and a node taken out of
\* the queue never comes back: no board is expanded twice.
C15_VusSsiInsere ==
    pc \in {"running", "solved", "exhausted", "IndexError"} =>
        /\ rs = {etat(noeuds[k]) : k \in Inseres}
        /\ \A k, l \in Inseres : k # l => noeuds[k].puzzle # noeuds[l].puzzle
        /\ \A k, l \in 1..Len(queue) : k # l => queue[k] # queue[l]
        /\ \A k \in 1..Len(queue) : queue[k] \in Inseres

\* C15, the keys are added at insertion and never at a pop: a step adds to rs
\* the keys of the nodes it inserts and no other, and puts back into the queue
\* no node it had taken out before.
C15_AjoutALInsertion ==
    [][pc = "running" =>
          /\ rs' = rs \cup {etat(noeuds'[k]) : k \in (Len(noeuds) + 1)..Len(noeuds')}
          /\ Cardinality(rs') = Cardinality(rs) + Len(noeuds') - Len(noeuds)
          /\ \A k \in 1..Len(queue') : queue'[k] \notin Extraits]_vars

C15_Witness ==
    /\ pc = "running"
    /\ Cardinality(Extraits) >= 3
    /\ Cardinality(rs) >= 8
    /\ Len(queue) >= 4

\* The node a priority queue keyed by (f ascending, discovery order descending)
\* gives first among the nodes of q: nodes are numbered in the order of their
\* discovery, the children of one expansion in the order of their moves
Prioritaire(ns, q) ==
    LET en == {q[k] : k \in 1..Len(q)}
    IN  CHOOSE x \in en : \A y \in en : \/ f(ns[x]) < f(ns[y])
                                        \/ (f(ns[x]) = f(ns[y]) /\ x >= y)

\* The node an iteration takes out of the queue: the one no longer in it
Extrait(q, q2) == CHOOSE x \in {q[k] : k \in 1..Len(q)} : \A k \in 1..Len(q2) : q2[k] # x

C17_CoherentEtAdmissible ==
    pc = "shuffle" =>
        /\ manhattan(table) # IndexError
        /\ \A t2 \in Voisins(table) :
              /\ manhattan(t2) # IndexError
              /\ manhattan(table) <= 1 + manhattan(t2)
        /\ manhattan(table) <= melange

\* C17 on the boards of width 3.
C17_CoherentEtAdmissible_Largeur3 ==
    Largeur(table) = 3 => C17_CoherentEtAdmissible

\* C18: every board met is valid, holding each of 0 .. N*N - 1 exactly once: the
\* board of every step of the walk of shuffle and the board of every node
\* resoudre creates; and a move leaves the board it starts from as it was: the
\* root still holds the board resoudre was given, and the board of every other
\* node is one legal move away from the board its parent holds now.
C18_GrillesValides ==
    /\ Valide(table)
    /\ \A k \in 1..Len(noeuds) :
          /\ Valide(noeuds[k].puzzle)
          /\ IF noeuds[k].parent = 0
             THEN noeuds[k].puzzle = table
             ELSE /\ noeuds[k].puzzle \in Voisins(noeuds[noeuds[k].parent].puzzle)
                  /\ noeuds[k].puzzle # noeuds[noeuds[k].parent].puzzle

\* C18, step by step: no step changes the board of a node created before, and
\* resoudre leaves the board it was given alone.
C18_SourceInchangee ==
    [][/\ \A k \in 1..Len(noeuds) : noeuds'[k].puzzle = noeuds[k].puzzle
       /\ pc # "shuffle" => table' = table]_vars

\* A search on a walked board with nodes three moves below the root
C18_Witness ==
    /\ pc = "running"
    /\ melange = 0
    /\ table # But(Largeur(table))
    /\ \E k \in 1..Len(noeuds) : noeuds[k].g >= 3
    /\ Cardinality(Extraits) >= 3

\* C19: the key of a board identifies it: two valid boards of the same width
\* have the same key, the decimal writings of the cells one after the other in
\* row-major order, exactly when their tables are equal. The board met is
\* compared with the goal, with the boards one and two moves away from it and
\* with the boards the walks start from.
C19_CleIdentifie ==
    \A t2 \in {But(Largeur(table))} \cup Voisins(table)
              \cup UNION {Voisins(v) : v \in Voisins(table)} \cup Depart :
        (Valide(table) /\ Valide(t2) /\ Largeur(t2) = Largeur(table)) =>
            (Str(table) = Str(t2) <=> table = t2)

\* C19 on the boards of width at most 3, whose values have one digit each.
C19_CleIdentifie_UnChiffre ==
    Largeur(table) <= 3 => C19_CleIdentifie

\* C20: in a run of resoudre on a board of width 3 the f of the nodes extracted
\* one after the other never decreases: the node extracted has the least f of
\* the queue, no node extracted before it has a greater f, and every child
\* created when it is expanded has an f at least as great as its own.
C20_FCroissant ==
    [][(pc = "running" /\ Largeur(table) = 3 /\ pc' \in {"running", "solved"}) =>
          LET p == Extrait(queue, queue')
          IN  /\ \A k \in 1..Len(queue) : f(noeuds[queue[k]]) >= f(noeuds[p])
              /\ \A x \in Extraits : f(noeuds[x]) <= f(noeuds[p])
              /\ \A k \in (Len(noeuds) + 1)..Len(noeuds') :
                    /\ noeuds'[k].parent = p
                    /\ f(noeuds'[k]) >= f(noeuds[p])]_vars

\* A run on a board of width 3 in which nodes of different f have been
\* extracted and children of different f wait in the queue
C20_Witness ==
    /\ pc = "running"
    /\ Largeur(table) = 3
    /\ \E x, y \in Extraits : f(noeuds[x]) < f(noeuds[y])
    /\ \E k, l \in 1..Len(queue) :
          /\ noeuds[queue[k]].parent = noeuds[queue[l]].parent
          /\ f(noeuds[queue[k]]) < f(noeuds[queue[l]])

====
